---------------------------- MODULE Spec2Model ----------------------------
(***************************************************************************)
(* Intermediate representation of the WAT compiler                         *)
(* (src/wat_compiler/ir_types.ts): the module tables (type interning,      *)
(* function / export registration, index resolution) and the token         *)
(* expressions (unfolding of folded s-expressions, the abstract operand    *)
(* stack of the type checker).                                             *)
(*                                                                         *)
(* The specifications share the variables:                                 *)
(*   Spec         a ModuleExpression built child by child;                 *)
(*   SpecExpr     one TokenExpression on which unfold / getReturnTypes /   *)
(*                getConsumedTypes are called, and from which a            *)
(*                FunctionExpression or a block is constructed;            *)
(*   SpecFunction one FunctionExpression and its name lookups;             *)
(*   SpecParent   the token expressions with parent back-references        *)
(*                (src/unnamed/part_001);                                  *)
(*   SpecExport   ExportExpression objects constructed from any token;     *)
(*   SpecModule   a ModuleExpression, built and then queried.              *)
(***************************************************************************)
EXTENDS Integers, Sequences, FiniteSets, TLC

VARIABLES
    globalTypes,        \* ModuleExpression.globalTypes
    functions,          \* ModuleExpression.functions
    globals,            \* ModuleExpression.globals
    exportExpressions,  \* ModuleExpression.exportExpressions
    expr,               \* the TokenExpression under consideration
    cache,              \* its private returnTypes / consumedTypes / signature fields
    result,             \* what the last call on expr returned or raised
    heap                \* the expression objects of the revision with parent references

vars == <<globalTypes, functions, globals, exportExpressions, expr, cache, result, heap>>

moduleVars == <<globalTypes, functions, globals, exportExpressions>>
exprVars == <<expr, cache, result, heap>>

-----------------------------------------------------------------------------
(* Bounds of the model *)

\* Number of children (functions and exports) handed to the module constructor.
MaxChildren == 3
\* Number of tokens (operators, operands, items) of an expression.
MaxTokens == 3
\* Number of parameters, and of locals, of a function with named slots.
MaxSlots == 2
\* Number of expression objects of the revision with parent references.
MaxObjects == 3

-----------------------------------------------------------------------------
(* Values *)

\* string | null fields hold Null when null; names of the program start with $ or ".
Null == "null"

\* number | null fields
NullNum == [isNull |-> TRUE]
Num(n) == [isNull |-> FALSE, value |-> n]

\* A raised Error
Raise(msg) == [kind |-> "Error", message |-> msg]

\* assert(condition, message) followed by the statements next: it throws when
\* the condition does not hold, and the statements behind it do not run
assert(condition, message, next) == IF condition THEN next ELSE Raise(message)
IsError(v) == v.kind = "Error"

-----------------------------------------------------------------------------
(* FunctionSignature, FunctionExpression, ExportExpression *)

FunctionSignature(paramTypes, returnTypes) ==
    [paramTypes |-> paramTypes, returnTypes |-> returnTypes]

NewFunctionExpression_NoLocalsCheck(functionName, inlineExportName, paramTypes, paramNames, returnTypes, localTypes, localNames, body) ==
    IF Len(paramTypes) # Len(paramNames)
    THEN Raise("Function param types and names must have same length")
    ELSE [kind |-> "FunctionExpression",
          functionName |-> functionName,
          inlineExportName |-> inlineExportName,
          hasInlineExport |-> inlineExportName # Null,
          functionSignature |-> FunctionSignature(paramTypes, returnTypes),
          functionBody |-> body,
          paramNames |-> paramNames,
          localTypes |-> localTypes,
          localNames |-> localNames]

NewFunctionExpression(functionName, inlineExportName, paramTypes, paramNames, returnTypes, localTypes, localNames, body) ==
    assert(Len(paramTypes) = Len(paramNames),
           "Function param types and names must have same length",
    assert(Len(localTypes) = Len(localNames),
           "Function local types and names must have same length",
           [kind |-> "FunctionExpression",
            functionName |-> functionName,
            inlineExportName |-> inlineExportName,
            hasInlineExport |-> inlineExportName # Null,
            functionSignature |-> FunctionSignature(paramTypes, returnTypes),
            functionBody |-> body,
            paramNames |-> paramNames,
            localTypes |-> localTypes,
            localNames |-> localNames]))

getID(f) == f.functionName

getSignature(f) == f.functionSignature

resolveVariableIndex_MinusOne(f, nameToResolve) ==
    LET names == f.paramNames \o f.localNames
    IN  IF \E i \in 1..Len(names) : names[i] = nameToResolve
        THEN [kind |-> "Ok",
              value |-> (CHOOSE i \in 1..Len(names) :
                            /\ names[i] = nameToResolve
                            /\ \A j \in 1..(i - 1) : names[j] # nameToResolve) - 1]
        ELSE [kind |-> "Ok", value |-> -1]

resolveVariableIndex_LocalsFirst(f, nameToResolve) ==
    LET names == f.localNames \o f.paramNames
    IN  IF \E i \in 1..Len(names) : names[i] = nameToResolve
        THEN [kind |-> "Ok",
              value |-> (CHOOSE i \in 1..Len(names) :
                            /\ names[i] = nameToResolve
                            /\ \A j \in 1..(i - 1) : names[j] # nameToResolve) - 1]
        ELSE Raise("Parameter name not found in function")

\* for (const [i, name] of [...paramNames, ...localNames].entries())
\*     if (name === nameToResolve) return i;
\* throw new Error(...)
resolveVariableIndex(f, nameToResolve) ==
    LET names == f.paramNames \o f.localNames
    IN  IF \E i \in 1..Len(names) : names[i] = nameToResolve
        THEN [kind |-> "Ok",
              value |-> (CHOOSE i \in 1..Len(names) :
                            /\ names[i] = nameToResolve
                            /\ \A j \in 1..(i - 1) : names[j] # nameToResolve) - 1]
        ELSE Raise("Parameter name not found in function")

\* Tokens of an export form: [type, lexeme]
TextToken(s) == [kind |-> "Token", type |-> "Text", lexeme |-> s]
FuncToken == [kind |-> "Token", type |-> "Func", lexeme |-> "func"]
NatToken(s) == [kind |-> "Token", type |-> "Nat", lexeme |-> s]
VarToken(s) == [kind |-> "Token", type |-> "Var", lexeme |-> s]

\* Token.extractName: the text literal without its quotes
extractName(tok) ==
    CASE tok.lexeme = "\"x\"" -> "x"
      [] tok.lexeme = "\"fn\"" -> "fn"
      [] OTHER -> tok.lexeme

\* Number.parseInt on the Nat lexemes of the model
parseInt(lexeme) ==
    CASE lexeme = "0" -> 0
      [] lexeme = "1" -> 1
      [] lexeme = "2" -> 2
      [] lexeme = "7" -> 7

getExportName(exportName) ==
    IF exportName.type # "Text"
    THEN Raise("unexpected export name")
    ELSE [kind |-> "Ok", value |-> extractName(exportName)]

getExportType(exportType) ==
    IF exportType.type # "Func"
    THEN Raise("unexpected export type")
    ELSE [kind |-> "Ok", value |-> "Func"]

getExportReference_AcceptsAny(exportReference) ==
    CASE exportReference.type = "Nat" ->
            [kind |-> "Ok", index |-> Num(parseInt(exportReference.lexeme)), name |-> Null]
      [] OTHER ->
            [kind |-> "Ok", index |-> NullNum, name |-> exportReference.lexeme]

getExportReference(exportReference) ==
    CASE exportReference.type = "Nat" ->
            [kind |-> "Ok", index |-> Num(parseInt(exportReference.lexeme)), name |-> Null]
      [] exportReference.type = "Var" ->
            [kind |-> "Ok", index |-> NullNum, name |-> exportReference.lexeme]
      [] OTHER -> Raise("unexpected export ID")

\* new ExportExpression(exportName: string, exportType: ExportType, exportReference: number)
NewInlineExportExpression(exportName, exportType, exportReference) ==
    [kind |-> "ExportExpression",
     exportName |-> exportName,
     exportType |-> exportType,
     exportReferenceIndex |-> Num(exportReference),
     exportReferenceName |-> Null]

\* new ExportExpression(exportName: Token, exportType: Token, exportReference: Token)
NewExportExpression(exportName, exportType, exportReference) ==
    LET n == getExportName(exportName)
        t == getExportType(exportType)
        r == getExportReference(exportReference)
    IN  IF IsError(n) THEN n
        ELSE IF IsError(t) THEN t
        ELSE IF IsError(r) THEN r
        ELSE [kind |-> "ExportExpression",
              exportName |-> n.value,
              exportType |-> t.value,
              exportReferenceIndex |-> r.index,
              exportReferenceName |-> r.name]

-----------------------------------------------------------------------------
(* ModuleExpression *)

Module ==
    [globalTypes |-> globalTypes, functions |-> functions,
     globals |-> globals, exportExpressions |-> exportExpressions]

\* lodash isEqual on FunctionSignature objects: deep structural equality
isEqual(a, b) == a = b

addGlobalType_Prepend(types, type) ==
    IF \E i \in 1..Len(types) : isEqual(types[i], type)
    THEN types
    ELSE <<type>> \o types

addGlobalType_AlwaysPush(types, type) == Append(types, type)

addGlobalType(types, type) ==
    IF \E i \in 1..Len(types) : isEqual(types[i], type)
    THEN types
    ELSE Append(types, type)

addExportExpression_Unshift(m, exportExpression) ==
    [m EXCEPT !.exportExpressions = <<exportExpression>> \o @]

addExportExpression(m, exportExpression) ==
    [m EXCEPT !.exportExpressions = Append(@, exportExpression)]

addFunctionExpression_NoGlobals(m, f) ==
    LET m1 == [m EXCEPT !.functions = Append(@, f),
                        !.globalTypes = addGlobalType(@, getSignature(f))]
    IN  IF f.hasInlineExport
        THEN addExportExpression(m1,
                NewInlineExportExpression(f.inlineExportName, "Func",
                                          Len(m1.functions) - 1))
        ELSE m1

addFunctionExpression_LengthAsIndex(m, f) ==
    LET m1 == [m EXCEPT !.functions = Append(@, f),
                        !.globalTypes = addGlobalType(@, getSignature(f)),
                        !.globals = Append(@, f)]
    IN  IF f.hasInlineExport
        THEN addExportExpression(m1,
                NewInlineExportExpression(f.inlineExportName, "Func",
                                          Len(m1.functions)))
        ELSE m1

addFunctionExpression_AlwaysExports(m, f) ==
    LET m1 == [m EXCEPT !.functions = Append(@, f),
                        !.globalTypes = addGlobalType(@, getSignature(f)),
                        !.globals = Append(@, f)]
    IN  addExportExpression(m1,
            NewInlineExportExpression(f.inlineExportName, "Func",
                                      Len(m1.functions) - 1))

addFunctionExpression(m, f) ==
    LET m1 == [m EXCEPT !.functions = Append(@, f),
                        !.globalTypes = addGlobalType(@, getSignature(f)),
                        !.globals = Append(@, f)]
    IN  IF f.hasInlineExport
        THEN addExportExpression(m1,
                NewInlineExportExpression(f.inlineExportName, "Func",
                                          Len(m1.functions) - 1))
        ELSE m1

\* Indices of the program are 0-based: position i of a TLA+ sequence is index i - 1.
resolveGlobalTypeIndex_LastMatch(types, type) ==
    IF \E i \in 1..Len(types) : isEqual(types[i], type)
    THEN [kind |-> "Ok",
          value |-> Len(types) - 1]
    ELSE Raise("Global type not found!")

resolveGlobalTypeIndex(types, type) ==
    IF \E i \in 1..Len(types) : isEqual(types[i], type)
    THEN [kind |-> "Ok",
          value |-> (CHOOSE i \in 1..Len(types) :
                        /\ isEqual(types[i], type)
                        /\ \A j \in 1..(i - 1) : ~isEqual(types[j], type)) - 1]
    ELSE assert(FALSE, "Global type not found!", [kind |-> "Ok", value |-> -1])

resolveGlobalExpressionIndex_OneBased(gs, name) ==
    IF \E i \in 1..Len(gs) : getID(gs[i]) = name
    THEN [kind |-> "Ok",
          value |-> CHOOSE i \in 1..Len(gs) :
                        /\ getID(gs[i]) = name
                        /\ \A j \in 1..(i - 1) : getID(gs[j]) # name]
    ELSE Raise("Global not found!")

resolveGlobalExpressionIndex_SkipsUnnamed(gs, name) ==
    LET named == SelectSeq(gs, LAMBDA g : getID(g) # Null)
    IN  IF \E i \in 1..Len(named) : getID(named[i]) = name
        THEN [kind |-> "Ok",
              value |-> (CHOOSE i \in 1..Len(named) :
                            /\ getID(named[i]) = name
                            /\ \A j \in 1..(i - 1) : getID(named[j]) # name) - 1]
        ELSE Raise("Global not found!")

resolveGlobalExpressionIndex(gs, name) ==
    IF \E i \in 1..Len(gs) : getID(gs[i]) = name
    THEN [kind |-> "Ok",
          value |-> (CHOOSE i \in 1..Len(gs) :
                        /\ getID(gs[i]) = name
                        /\ \A j \in 1..(i - 1) : getID(gs[j]) # name) - 1]
    ELSE assert(FALSE, "Global not found!", [kind |-> "Ok", value |-> -1])

-----------------------------------------------------------------------------
(* Children handed to the ModuleExpression constructor *)

FunctionNames == {Null, "$a", "$b"}
InlineExportNames == {Null, "fn"}
ParamTypeLists == {<<>>, <<"i32">>}
ReturnTypeLists == {<<>>, <<"i32">>}

EmptyTokenExpression == [kind |-> "EmptyTokenExpression"]

NullNames(types) == [i \in 1..Len(types) |-> Null]

ExportReferenceTokens == {NatToken("0"), NatToken("1"), VarToken("$a"), VarToken("$b")}

-----------------------------------------------------------------------------
(* Tokens of function bodies and their static stack effect *)

Ok(v) == [kind |-> "Ok", value |-> v]

OpcodeToken(s) == [kind |-> "Token", type |-> "Opcode", lexeme |-> s]
BlockToken == [kind |-> "Token", type |-> "Block", lexeme |-> "block"]
LoopToken == [kind |-> "Token", type |-> "Loop", lexeme |-> "loop"]
IfToken == [kind |-> "Token", type |-> "If", lexeme |-> "if"]

\* Token.getConsumedTypes: the consumed types the opcode table gives the token
Token_getConsumedTypes(tok) ==
    CASE tok.lexeme = "i32.eq" -> <<"i32", "i32">>
      [] tok.lexeme = "i64.eq" -> <<"i64", "i64">>
      [] tok.lexeme = "i64.store" -> <<"i32", "i64">>
      [] tok.lexeme = "f64.add" -> <<"f64", "f64">>
      [] OTHER -> <<>>

\* Token.getReturnTypes: the produced types the opcode table gives the token
Token_getReturnTypes(tok) ==
    CASE tok.lexeme = "i32.const" -> <<"i32">>
      [] tok.lexeme = "i64.const" -> <<"i64">>
      [] tok.lexeme = "i32.eq" -> <<"i32">>
      [] tok.lexeme = "i64.eq" -> <<"i32">>
      [] tok.lexeme = "f64.add" -> <<"f64">>
      [] OTHER -> <<>>

-----------------------------------------------------------------------------
(* TokenExpression: OperationTree, UnfoldedTokenExpression, BlockExpression,
   EmptyTokenExpression, and the results of unfold *)

OperationTree(operator, operands) ==
    [kind |-> "OperationTree", operator |-> operator, operands |-> operands]

UnfoldedTokenExpression(tokens) ==
    [kind |-> "UnfoldedTokenExpression", tokens |-> tokens]

\* The constructor checks the header and stores header, body and label; the
\* signature argument is not stored.
BlockExpression(headerToken, signature, blockExpression, label) ==
    assert(headerToken.type \in {"Block", "Loop", "If"}, "assertion failed",
           [kind |-> "BlockExpression",
            headerToken |-> headerToken,
            blockExpression |-> blockExpression,
            label |-> label])

PureUnfoldedTokenExpression(tokens) ==
    [kind |-> "PureUnfoldedTokenExpression", tokens |-> tokens]

PureUnfoldedBlockExpression(signature, tokens) ==
    [kind |-> "PureUnfoldedBlockExpression", signature |-> signature, tokens |-> tokens]

\* The private fields returnTypes?, consumedTypes?, signature? of an expression
Undefined == [defined |-> FALSE]
Defined(v) == [defined |-> TRUE, value |-> v]
FreshCache ==
    [returnTypes |-> Undefined, consumedTypes |-> Undefined, signature |-> Undefined]

-----------------------------------------------------------------------------
(* The type checker: getReturnTypes / getConsumedTypes / resolveTypes *)

RECURSIVE getReturnTypes(_), getConsumedTypes(_), stackLoop(_, _), popConsumed(_, _)

popConsumed_NoCompare(stack, consumed) ==
    IF consumed = <<>> THEN Ok(stack)
    ELSE IF stack = <<>> THEN popConsumed(stack, Tail(consumed))
    ELSE popConsumed(SubSeq(stack, 1, Len(stack) - 1), Tail(consumed))

\* for (const consumedValueType of consumed):
\*     if (stack.at(-1) === consumedValueType) stack.pop(); else throw
popConsumed(stack, consumed) ==
    IF consumed = <<>> THEN Ok(stack)
    ELSE IF stack # <<>> /\ stack[Len(stack)] = Head(consumed)
    THEN popConsumed(SubSeq(stack, 1, Len(stack) - 1), Tail(consumed))
    ELSE Raise("Type mismatch")

\* The loop over the operands / tokens, from the stack it is started with.
\* A call that raises ends the loop with the error.
stackLoop(stack, items) ==
    IF items = <<>> THEN Ok(stack)
    ELSE LET push(popped, added) ==
                 IF IsError(popped) THEN popped
                 ELSE stackLoop(popped.value \o added.value, Tail(items))
             pop(consumed, added) ==
                 IF IsError(consumed) THEN consumed
                 ELSE IF IsError(added) THEN added
                 ELSE push(popConsumed(stack, consumed.value), added)
         IN  pop(getConsumedTypes(Head(items)), getReturnTypes(Head(items)))

OperationTree_resolveTypes_ConsumesOperator(e) ==
    LET check(stack, consumedTypes) ==
            IF IsError(stack) THEN stack
            ELSE IF ~isEqual(stack.value, consumedTypes)
            THEN Raise("Type mismatch, expected consumedTypes, but got stack")
            ELSE Ok([returnTypes |-> Token_getReturnTypes(e.operator),
                     consumedTypes |-> consumedTypes])
    IN  check(stackLoop(<<>>, e.operands), Token_getConsumedTypes(e.operator))

OperationTree_resolveTypes(e) ==
    LET check(stack, consumedTypes) ==
            IF IsError(stack) THEN stack
            ELSE IF ~isEqual(stack.value, consumedTypes)
            THEN Raise("Type mismatch, expected consumedTypes, but got stack")
            ELSE Ok([returnTypes |-> Token_getReturnTypes(e.operator),
                     consumedTypes |-> <<>>])
    IN  check(stackLoop(<<>>, e.operands), Token_getConsumedTypes(e.operator))

UnfoldedTokenExpression_resolveTypes(e) ==
    LET assign(stack) ==
            IF IsError(stack) THEN stack
            ELSE Ok([returnTypes |-> stack.value, consumedTypes |-> <<>>])
    IN  assign(stackLoop(<<>>, e.tokens))

BlockExpression_resolveTypes(e) ==
    LET assign(returnTypes, consumedTypes) ==
            IF IsError(returnTypes) THEN returnTypes
            ELSE IF IsError(consumedTypes) THEN consumedTypes
            ELSE Ok(FunctionSignature(consumedTypes.value, returnTypes.value))
    IN  assign(getReturnTypes(e.blockExpression), getConsumedTypes(e.blockExpression))

\* A call of a method on an expression whose private fields are c: the fields
\* after the call and what the call returns (Ok) or raises (Error).
resolveInto_KeepsPartial(e, c) ==
    LET assign(r) ==
            IF IsError(r) THEN [cache |-> [c EXCEPT !.consumedTypes = Defined(<<>>)],
                                value |-> r]
            ELSE [cache |-> [c EXCEPT !.returnTypes = Defined(r.value.returnTypes),
                                      !.consumedTypes = Defined(r.value.consumedTypes)],
                  value |-> r]
    IN  assign(IF e.kind = "OperationTree" THEN OperationTree_resolveTypes(e)
               ELSE UnfoldedTokenExpression_resolveTypes(e))

resolveInto(e, c) ==
    LET assign(r) ==
            IF IsError(r) THEN [cache |-> c, value |-> r]
            ELSE [cache |-> [c EXCEPT !.returnTypes = Defined(r.value.returnTypes),
                                      !.consumedTypes = Defined(r.value.consumedTypes)],
                  value |-> r]
    IN  assign(IF e.kind = "OperationTree" THEN OperationTree_resolveTypes(e)
               ELSE UnfoldedTokenExpression_resolveTypes(e))

BlockExpression_getSignature(e, c) ==
    LET assign(r) ==
            IF IsError(r) THEN [cache |-> c, value |-> r]
            ELSE [cache |-> [c EXCEPT !.signature = Defined(r.value)], value |-> r]
    IN  IF c.signature.defined THEN [cache |-> c, value |-> Ok(c.signature.value)]
        ELSE assign(BlockExpression_resolveTypes(e))

InvokeGetReturnTypes(e, c) ==
    LET returned(r) ==
            IF IsError(r.value) THEN r
            ELSE [cache |-> r.cache, value |-> Ok(r.value.value.returnTypes)]
    IN  CASE e.kind = "Token" -> [cache |-> c, value |-> Ok(Token_getReturnTypes(e))]
          [] e.kind = "EmptyTokenExpression" -> [cache |-> c, value |-> Ok(<<>>)]
          [] e.kind = "BlockExpression" -> returned(BlockExpression_getSignature(e, c))
          [] e.kind \in {"OperationTree", "UnfoldedTokenExpression"} ->
                IF c.returnTypes.defined
                THEN [cache |-> c, value |-> Ok(c.returnTypes.value)]
                ELSE returned(resolveInto(e, c))
          [] OTHER -> [cache |-> c, value |-> Raise("getReturnTypes is not a function")]

InvokeGetConsumedTypes(e, c) ==
    LET signatureOf(r) ==
            IF IsError(r.value) THEN r
            ELSE [cache |-> r.cache, value |-> Ok(r.value.value.paramTypes)]
        returned(r) ==
            IF IsError(r.value) THEN r
            ELSE [cache |-> r.cache, value |-> Ok(r.value.value.consumedTypes)]
    IN  CASE e.kind = "Token" -> [cache |-> c, value |-> Ok(Token_getConsumedTypes(e))]
          [] e.kind = "EmptyTokenExpression" -> [cache |-> c, value |-> Ok(<<>>)]
          [] e.kind = "BlockExpression" -> signatureOf(BlockExpression_getSignature(e, c))
          [] e.kind \in {"OperationTree", "UnfoldedTokenExpression"} ->
                IF c.consumedTypes.defined
                THEN [cache |-> c, value |-> Ok(c.consumedTypes.value)]
                ELSE returned(resolveInto(e, c))
          [] OTHER -> [cache |-> c, value |-> Raise("getConsumedTypes is not a function")]

\* On an operand or item, whose private fields are still undefined or hold
\* what resolveTypes computes again
getReturnTypes(e) == InvokeGetReturnTypes(e, FreshCache).value

getConsumedTypes(e) == InvokeGetConsumedTypes(e, FreshCache).value

-----------------------------------------------------------------------------
(* unfold *)

RECURSIVE unfold(_), flatMapUnfold(_)

unfoldItem_DropToken(item) ==
    LET tokensOf(u) == IF IsError(u) THEN u ELSE Ok(u.tokens)
    IN  IF item.kind = "Token" THEN Ok(<<>>) ELSE tokensOf(unfold(item))

\* item instanceof Token ? [item] : item.unfold().tokens
unfoldItem(item) ==
    LET tokensOf(u) == IF IsError(u) THEN u ELSE Ok(u.tokens)
    IN  IF item.kind = "Token" THEN Ok(<<item>>) ELSE tokensOf(unfold(item))

\* items.flatMap(item => item instanceof Token ? [item] : item.unfold().tokens)
flatMapUnfold(items) ==
    LET concat(first, rest) ==
            IF IsError(first) THEN first
            ELSE IF IsError(rest) THEN rest
            ELSE Ok(first.value \o rest.value)
    IN  IF items = <<>> THEN Ok(<<>>)
        ELSE concat(unfoldItem(Head(items)), flatMapUnfold(Tail(items)))

OperationTree_unfold_Shallow(e) ==
    PureUnfoldedTokenExpression(e.operands \o <<e.operator>>)

OperationTree_unfold_OperatorFirst(e) ==
    LET new(unfoldedOperands) ==
            IF IsError(unfoldedOperands) THEN unfoldedOperands
            ELSE PureUnfoldedTokenExpression(<<e.operator>> \o unfoldedOperands.value)
    IN  new(flatMapUnfold(e.operands))

OperationTree_unfold(e) ==
    LET new(unfoldedOperands) ==
            IF IsError(unfoldedOperands) THEN unfoldedOperands
            ELSE PureUnfoldedTokenExpression(unfoldedOperands.value \o <<e.operator>>)
    IN  new(flatMapUnfold(e.operands))

UnfoldedTokenExpression_unfold_DropLast(e) ==
    LET new(unfoldedOperands) ==
            IF IsError(unfoldedOperands) THEN unfoldedOperands
            ELSE PureUnfoldedTokenExpression(
                     SubSeq(unfoldedOperands.value, 1, Len(unfoldedOperands.value) - 1))
    IN  new(flatMapUnfold(e.tokens))

UnfoldedTokenExpression_unfold(e) ==
    LET new(unfoldedOperands) ==
            IF IsError(unfoldedOperands) THEN unfoldedOperands
            ELSE PureUnfoldedTokenExpression(unfoldedOperands.value)
    IN  new(flatMapUnfold(e.tokens))

EmptyTokenExpression_unfold(e) == PureUnfoldedTokenExpression(<<>>)

createEndToken(e) == [kind |-> "Token", type |-> "End", lexeme |-> "end"]

BlockExpression_unfold_NoEnd(e, c) ==
    LET new(s, body) ==
            IF IsError(s.value) THEN s
            ELSE IF IsError(body) THEN [cache |-> s.cache, value |-> body]
            ELSE [cache |-> s.cache,
                  value |-> PureUnfoldedBlockExpression(s.value.value,
                                <<e.headerToken>> \o body.tokens)]
    IN  new(BlockExpression_getSignature(e, c), unfold(e.blockExpression))

\* unfold of a block whose private fields are c: getSignature() is evaluated
\* first (and may set the signature field), then the body is unfolded.
BlockExpression_unfold(e, c) ==
    LET new(s, body) ==
            IF IsError(s.value) THEN s
            ELSE IF IsError(body) THEN [cache |-> s.cache, value |-> body]
            ELSE [cache |-> s.cache,
                  value |-> PureUnfoldedBlockExpression(s.value.value,
                                <<e.headerToken>> \o body.tokens \o <<createEndToken(e)>>)]
    IN  new(BlockExpression_getSignature(e, c), unfold(e.blockExpression))

\* e.unfold() on an expression whose private fields are c.  Tokens and the
\* results of unfold (PureUnfoldedTokenExpression, PureUnfoldedBlockExpression)
\* have no unfold method.
InvokeUnfold(e, c) ==
    CASE e.kind = "OperationTree" -> [cache |-> c, value |-> OperationTree_unfold(e)]
      [] e.kind = "UnfoldedTokenExpression" ->
            [cache |-> c, value |-> UnfoldedTokenExpression_unfold(e)]
      [] e.kind = "EmptyTokenExpression" ->
            [cache |-> c, value |-> EmptyTokenExpression_unfold(e)]
      [] e.kind = "BlockExpression" -> BlockExpression_unfold(e, c)
      [] OTHER -> [cache |-> c, value |-> Raise("unfold is not a function")]

unfold(e) == InvokeUnfold(e, FreshCache).value

-----------------------------------------------------------------------------
(* Specification of the module: the constructor adds its children in order *)

InitModule ==
    /\ globalTypes = <<>>
    /\ functions = <<>>
    /\ globals = <<>>
    /\ exportExpressions = <<>>

InitExprIdle ==
    /\ expr = EmptyTokenExpression
    /\ cache = FreshCache
    /\ result = [op |-> "none"]
    /\ heap = <<>>

SetModule(m) ==
    /\ globalTypes' = m.globalTypes
    /\ functions' = m.functions
    /\ globals' = m.globals
    /\ exportExpressions' = m.exportExpressions

AddFunctionExpression ==
    /\ Len(functions) + Len(exportExpressions) < MaxChildren
    /\ \E name \in FunctionNames, inline \in InlineExportNames,
          params \in ParamTypeLists, returns \in ReturnTypeLists :
        LET f == NewFunctionExpression(name, inline, params, NullNames(params),
                                       returns, <<>>, <<>>, EmptyTokenExpression)
        IN  /\ ~IsError(f)
            /\ SetModule(addFunctionExpression(Module, f))
    /\ UNCHANGED exprVars

AddExportExpression ==
    /\ Len(functions) + Len(exportExpressions) < MaxChildren
    /\ \E ref \in ExportReferenceTokens :
        LET e == NewExportExpression(TextToken("\"x\""), FuncToken, ref)
        IN  /\ ~IsError(e)
            /\ SetModule(addExportExpression(Module, e))
    /\ UNCHANGED exprVars

Init == InitModule /\ InitExprIdle

Next == AddFunctionExpression \/ AddExportExpression

Spec == Init /\ [][Next]_vars

-----------------------------------------------------------------------------
(* The expressions of the model *)

BodyTokens ==
    {OpcodeToken("i32.const"), OpcodeToken("i64.const"), NatToken("0"),
     OpcodeToken("i64.eq"), OpcodeToken("i64.store")}

\* Operators and operands of the folded forms
TreeTokens ==
    {OpcodeToken("i32.const"), OpcodeToken("i64.const"), OpcodeToken("i64.store")}

TokenSeqs(m) == [1..m -> TreeTokens]

\* A body without s-expressions of m tokens
TokenBody(m) ==
    IF m = 0 THEN {EmptyTokenExpression}
    ELSE {UnfoldedTokenExpression(ts) : ts \in TokenSeqs(m)}

RECURSIVE Trees(_), Items(_), Operands(_)

\* OperationTrees of n tokens
Trees(n) ==
    IF n < 1 THEN {}
    ELSE {OperationTree(op, args) : op \in TreeTokens, args \in Operands(n - 1)}

\* tokens: (Token | OperationTree)[] of m tokens in all
Items(m) ==
    IF m = 0 THEN {<<>>}
    ELSE UNION {{<<x>> \o rest :
                    x \in (IF j = 1 THEN BodyTokens ELSE {}) \cup Trees(j),
                    rest \in Items(m - j)} : j \in 1..m}

\* operands: (Token | TokenExpression)[] of m tokens in all
Operands(m) ==
    IF m = 0 THEN {<<>>}
    ELSE UNION {{<<x>> \o rest :
                    x \in (IF j = 1 THEN TreeTokens ELSE {})
                          \cup Trees(j)
                          \cup TokenBody(j)
                          \cup {BlockExpression(BlockToken, FunctionSignature(<<>>, <<>>),
                                                b, Null) : b \in TokenBody(j - 1)},
                    rest \in Operands(m - j)} : j \in 1..m}

TopLevelBlocks ==
    {BlockExpression(h, FunctionSignature(<<>>, <<>>), b, label) :
        h \in {BlockToken, LoopToken, IfToken},
        label \in {Null, "$L"},
        b \in {EmptyTokenExpression}
              \cup UNION {Trees(n) : n \in 1..(MaxTokens - 1)}
              \cup {UnfoldedTokenExpression(s) :
                        s \in UNION {Items(m) : m \in 0..(MaxTokens - 1)}}}

\* Bodies of the test cases functionFoldedBody, functionUnfoldedBody,
\* comparisonOperators and block_statment
FunctionFoldedBody ==
    OperationTree(OpcodeToken("f64.add"),
        <<UnfoldedTokenExpression(<<OpcodeToken("local.get"), VarToken("$a")>>),
          UnfoldedTokenExpression(<<OpcodeToken("local.get"), VarToken("$b")>>)>>)

FunctionUnfoldedBody ==
    UnfoldedTokenExpression(
        <<OpcodeToken("local.get"), VarToken("$a"),
          OpcodeToken("local.get"), VarToken("$b"), OpcodeToken("f64.add")>>)

ComparisonOperators ==
    UnfoldedTokenExpression(
        <<OpcodeToken("i32.const"), NatToken("0"),
          OpcodeToken("i32.const"), NatToken("0"), OpcodeToken("i32.eq")>>)

BlockStatement ==
    BlockExpression(BlockToken, FunctionSignature(<<>>, <<>>),
        UnfoldedTokenExpression(<<OpcodeToken("nop")>>), "$my_block")

\* A tree whose operands are the instructions i32.const, i64.const, i64.store
StoreOperands ==
    OperationTree(OpcodeToken("nop"),
        <<OpcodeToken("i32.const"), OpcodeToken("i64.const"), OpcodeToken("i64.store")>>)

TestCaseExpressions ==
    {FunctionFoldedBody, FunctionUnfoldedBody, ComparisonOperators, BlockStatement}

ExprUniverse ==
    {EmptyTokenExpression}
    \cup UNION {Trees(n) : n \in 1..MaxTokens}
    \cup {UnfoldedTokenExpression(s) : s \in UNION {Items(m) : m \in 0..MaxTokens}}
    \cup TopLevelBlocks
    \cup TestCaseExpressions
    \cup {StoreOperands}

-----------------------------------------------------------------------------
(* Specification of one expression: calls of its methods, in any order *)

InitExpr ==
    /\ InitModule
    /\ expr \in ExprUniverse
    /\ cache = FreshCache
    /\ result = [op |-> "none"]
    /\ heap = <<>>

CallGetReturnTypes ==
    LET r == InvokeGetReturnTypes(expr, cache)
    IN  /\ cache' = r.cache
        /\ result' = [op |-> "getReturnTypes", value |-> r.value]
        /\ UNCHANGED <<expr, heap, moduleVars>>

CallGetConsumedTypes ==
    LET r == InvokeGetConsumedTypes(expr, cache)
    IN  /\ cache' = r.cache
        /\ result' = [op |-> "getConsumedTypes", value |-> r.value]
        /\ UNCHANGED <<expr, heap, moduleVars>>

CallUnfold ==
    LET r == InvokeUnfold(expr, cache)
    IN  /\ cache' = r.cache
        /\ result' = [op |-> "unfold", value |-> r.value]
        /\ UNCHANGED <<expr, heap, moduleVars>>

\* unfold called on what expr.unfold() returned
CallUnfoldOnResult ==
    /\ result.op = "unfold"
    /\ ~IsError(result.value)
    /\ result' = [op |-> "unfoldOfResult", first |-> result.value,
                  value |-> InvokeUnfold(result.value, FreshCache).value]
    /\ UNCHANGED <<expr, cache, heap, moduleVars>>

\* unfold called on a new UnfoldedTokenExpression holding the returned tokens
CallUnfoldOnRewrapped ==
    /\ result.op = "unfold"
    /\ ~IsError(result.value)
    /\ result' = [op |-> "unfoldOfRewrapped", first |-> result.value,
                  value |-> InvokeUnfold(UnfoldedTokenExpression(result.value.tokens),
                                         FreshCache).value]
    /\ UNCHANGED <<expr, cache, heap, moduleVars>>

\* new FunctionExpression(null, null, params, names, returns, [], [], expr)
ConstructFunction ==
    /\ \E params \in ParamTypeLists, returns \in ReturnTypeLists :
          result' = [op |-> "newFunction",
                     value |-> NewFunctionExpression(Null, Null, params,
                                   NullNames(params), returns, <<>>, <<>>, expr)]
    /\ UNCHANGED <<expr, cache, heap, moduleVars>>

RECURSIVE NumTokens(_), NumTokensOfAll(_)

\* How many tokens an expression holds, a block header counted as one
NumTokens(e) ==
    CASE e.kind = "Token" -> 1
      [] e.kind = "OperationTree" -> 1 + NumTokensOfAll(e.operands)
      [] e.kind = "UnfoldedTokenExpression" -> NumTokensOfAll(e.tokens)
      [] e.kind = "BlockExpression" -> 1 + NumTokens(e.blockExpression)
      [] OTHER -> 0

NumTokensOfAll(items) ==
    IF items = <<>> THEN 0
    ELSE NumTokens(Head(items)) + NumTokensOfAll(Tail(items))

\* The signatures a typeuse of a block declares
BlockSignatures ==
    {FunctionSignature(p, r) : p \in {<<>>, <<"i32">>, <<"i64", "i64">>},
                               r \in {<<>>, <<"i32">>}}

\* new BlockExpression(block, signature, expr), around a body on which no
\* method has been called yet; header and body hold up to MaxTokens tokens
ConstructBlock ==
    /\ cache = FreshCache
    /\ result.op = "none"
    /\ NumTokens(expr) < MaxTokens
    /\ \E signature \in BlockSignatures :
          result' = [op |-> "newBlock", signature |-> signature,
                     value |-> BlockExpression(BlockToken, signature, expr, Null)]
    /\ UNCHANGED <<expr, cache, heap, moduleVars>>

\* getSignature called on the block just constructed
CallGetSignatureOnBlock ==
    /\ result.op = "newBlock"
    /\ ~IsError(result.value)
    /\ result' = [op |-> "getSignature", signature |-> result.signature,
                  block |-> result.value,
                  value |-> BlockExpression_getSignature(result.value, FreshCache).value]
    /\ UNCHANGED <<expr, cache, heap, moduleVars>>

NextExpr ==
    \/ CallGetReturnTypes
    \/ CallGetConsumedTypes
    \/ CallUnfold
    \/ CallUnfoldOnResult
    \/ CallUnfoldOnRewrapped
    \/ ConstructFunction
    \/ ConstructBlock
    \/ CallGetSignatureOnBlock

SpecExpr == InitExpr /\ [][NextExpr]_vars

-----------------------------------------------------------------------------
(* Specification of one function with named parameters and locals: it is
   constructed and handed to the ModuleExpression constructor, and names are
   resolved in it and in the module *)

SlotNames == {Null, "$x", "$y"}
VariableNames == {"$x", "$y", "$z"}

SlotNameLists == UNION {[1..n -> SlotNames] : n \in 0..MaxSlots}
SlotTypeLists == UNION {[1..n -> {"i32"}] : n \in 0..MaxSlots}

\* new ModuleExpression(new FunctionExpression(name, null, paramTypes,
\* paramNames, [], localTypes, localNames, new EmptyTokenExpression())).
\* The program under consideration constructs one function.
ConstructNamedFunction ==
    /\ functions = <<>>
    /\ result.op # "newFunction"
    /\ \E name \in FunctionNames,
          paramTypes \in SlotTypeLists, paramNames \in SlotNameLists,
          localTypes \in SlotTypeLists, localNames \in SlotNameLists :
        LET f == NewFunctionExpression(name, Null, paramTypes, paramNames, <<>>,
                                       localTypes, localNames, EmptyTokenExpression)
        IN  /\ result' = [op |-> "newFunction", value |-> f,
                          paramTypes |-> paramTypes, paramNames |-> paramNames,
                          localTypes |-> localTypes, localNames |-> localNames]
            /\ IF IsError(f) THEN UNCHANGED moduleVars
               ELSE SetModule(addFunctionExpression(Module, f))
    /\ UNCHANGED <<expr, cache, heap>>

CallResolveVariableIndex ==
    /\ functions # <<>>
    /\ \E name \in VariableNames :
          result' = [op |-> "resolveVariableIndex", name |-> name,
                     value |-> resolveVariableIndex(functions[1], name)]
    /\ UNCHANGED <<expr, cache, heap, moduleVars>>

CallResolveGlobalExpressionIndex ==
    /\ \E name \in FunctionNames \ {Null} :
          result' = [op |-> "resolveGlobalExpressionIndex", name |-> name,
                     value |-> resolveGlobalExpressionIndex(globals, name)]
    /\ UNCHANGED <<expr, cache, heap, moduleVars>>

NextFunction ==
    \/ ConstructNamedFunction
    \/ CallResolveVariableIndex
    \/ CallResolveGlobalExpressionIndex

SpecFunction == Init /\ [][NextFunction]_vars

-----------------------------------------------------------------------------
(* The revision of the token expressions with parent back-references
   (src/unnamed/part_001, marked P1 below).  Expressions are objects of a
   heap: object i is heap[i]; an operand that is a TokenExpression is a
   reference Ref(i); the parent field is Undefined or Defined(p), p being an
   object or the FunctionExpression that owns the body. *)

Ref(id) == [kind |-> "Ref", id |-> id]

\* The FunctionExpression that owns a body is not an object of the heap
FunctionParent == 0

setParent(h, id, parent) == [h EXCEPT ![id].parent = Defined(parent)]

\* for (const operand of operands) if (operand instanceof TokenExpression) operand.setParent(this)
setParentOfAll(h, items, parent) ==
    [i \in 1..Len(h) |->
        IF \E k \in 1..Len(items) : items[k] = Ref(i)
        THEN [h[i] EXCEPT !.parent = Defined(parent)]
        ELSE h[i]]

OperationTree_P1(h, operator, operands) ==
    setParentOfAll(Append(h, [kind |-> "OperationTree", parent |-> Undefined,
                              operator |-> operator, operands |-> operands]),
                   operands, Len(h) + 1)

UnfoldedTokenExpression_P1(h, items) ==
    setParentOfAll(Append(h, [kind |-> "UnfoldedTokenExpression", parent |-> Undefined,
                              expr |-> items]),
                   items, Len(h) + 1)

EmptyTokenExpression_P1(h) ==
    Append(h, [kind |-> "EmptyTokenExpression", parent |-> Undefined])

UnfoldedBlockExpression_P1(h, signature, name, tokens) ==
    setParentOfAll(Append(h, [kind |-> "UnfoldedBlockExpression", parent |-> Undefined,
                              signature |-> signature, name |-> name, expr |-> tokens]),
                   tokens, Len(h) + 1)

\* BlockExpression extends OperationTree: super(headerToken, []), then the
\* signature (BlockSignature asserts the block type) and the body
BlockExpression_P1(h, headerToken, name, paramTypes, returnTypes, blockExpression) ==
    assert(headerToken.type \in {"Block", "Loop", "If"}, "block type must be Block, Loop or If",
           setParent(Append(h, [kind |-> "BlockExpression", parent |-> Undefined,
                                operator |-> headerToken, operands |-> <<>>,
                                signature |-> [blockType |-> headerToken.type, name |-> name,
                                               signatureType |-> FunctionSignature(paramTypes, returnTypes)],
                                body |-> blockExpression.id,
                                headerToken |-> headerToken]),
                     blockExpression.id, Len(h) + 1))

\* this.unfold() of object id: the heap after the call and what the call
\* returns (the new object) or raises
unfold_P1(h, id) ==
    LET this == h[id]
        new == Len(h) + 1
        returned(h1) == [heap |-> setParent(h1, new, this.parent.value), value |-> Ok(new)]
    IN  IF this.kind \notin {"OperationTree", "EmptyTokenExpression", "BlockExpression"}
        THEN [heap |-> h, value |-> Raise("unfold is not a function")]
        ELSE IF ~this.parent.defined
        THEN [heap |-> h,
              value |-> Raise("Parent Expression for this Function Expression not set")]
        ELSE CASE this.kind = "OperationTree" ->
                    returned(UnfoldedTokenExpression_P1(h, this.operands \o <<this.operator>>))
               [] this.kind = "EmptyTokenExpression" ->
                    returned(UnfoldedTokenExpression_P1(h, <<>>))
               [] this.kind = "BlockExpression" ->
                    returned(UnfoldedBlockExpression_P1(h, this.signature.signatureType,
                                 this.signature.name,
                                 <<this.headerToken, Ref(this.body), createEndToken(this)>>))

\* Operands of a new tree: tokens and expressions that are not yet part of
\* another expression, each at most once
OperandLists_P1(h) ==
    LET free == {Ref(i) : i \in {j \in 1..Len(h) : ~h[j].parent.defined}}
        items == {OpcodeToken("i32.const")} \cup free
    IN  {s \in UNION {[1..n -> items] : n \in 0..2} :
            \A i, j \in 1..Len(s) : (s[i] = s[j] /\ s[i].kind = "Ref") => i = j}

NewOperationTree_P1 ==
    /\ Len(heap) < MaxObjects
    /\ \E operands \in OperandLists_P1(heap) :
          heap' = OperationTree_P1(heap, OpcodeToken("i64.store"), operands)
    /\ result' = [op |-> "newOperationTree", target |-> Len(heap) + 1]
    /\ UNCHANGED <<expr, cache, moduleVars>>

NewEmptyTokenExpression_P1 ==
    /\ Len(heap) < MaxObjects
    /\ heap' = EmptyTokenExpression_P1(heap)
    /\ result' = [op |-> "newEmptyTokenExpression", target |-> Len(heap) + 1]
    /\ UNCHANGED <<expr, cache, moduleVars>>

NewBlockExpression_P1 ==
    /\ Len(heap) < MaxObjects
    /\ \E body \in 1..Len(heap), headerToken \in {BlockToken, IfToken} :
          /\ ~heap[body].parent.defined
          /\ heap' = BlockExpression_P1(heap, headerToken, Null, <<>>, <<>>, Ref(body))
    /\ result' = [op |-> "newBlockExpression", target |-> Len(heap) + 1]
    /\ UNCHANGED <<expr, cache, moduleVars>>

\* new FunctionExpression(..., body): body.setParent(this)
NewFunctionExpression_P1 ==
    /\ \E body \in 1..Len(heap) :
          /\ ~heap[body].parent.defined
          /\ heap' = setParent(heap, body, FunctionParent)
          /\ result' = [op |-> "newFunctionExpression", target |-> body]
    /\ UNCHANGED <<expr, cache, moduleVars>>

\* unfold called on an object; a call that returns creates one object
CallUnfold_P1 ==
    /\ \E id \in 1..Len(heap) :
          LET r == unfold_P1(heap, id)
          IN  /\ IsError(r.value) \/ Len(heap) < MaxObjects
              /\ heap' = r.heap
              /\ result' = [op |-> "unfold", target |-> id, value |-> r.value]
    /\ UNCHANGED <<expr, cache, moduleVars>>

NextParent ==
    \/ NewOperationTree_P1
    \/ NewEmptyTokenExpression_P1
    \/ NewBlockExpression_P1
    \/ NewFunctionExpression_P1
    \/ CallUnfold_P1

SpecParent == Init /\ [][NextParent]_vars

-----------------------------------------------------------------------------
(* C1: after any sequence of additions, globalTypes holds no two entries
   with equal parameter types and equal return types. *)
C1_GlobalTypesUnique ==
    \A i, j \in 1..Len(globalTypes) :
        (/\ globalTypes[i].paramTypes = globalTypes[j].paramTypes
         /\ globalTypes[i].returnTypes = globalTypes[j].returnTypes) => i = j

\* Two functions of the same signature have been added (with exports between),
\* and the type section holds one entry.
C1_Witness ==
    /\ Len(functions) >= 2
    /\ \E i, j \in 1..Len(functions) :
          i # j /\ getSignature(functions[i]) = getSignature(functions[j])
    /\ Len(globalTypes) = 1

(* C2: for every function f of the module, resolveGlobalTypeIndex of f's
   signature succeeds and returns the only position whose entry has f's
   parameter and return types, whatever f's name; the first function's
   index is 0. *)
C2_TypeIndexResolves ==
    /\ \A k \in 1..Len(functions) :
        LET sig == getSignature(functions[k])
            r == resolveGlobalTypeIndex(globalTypes, sig)
        IN  /\ r.kind = "Ok"
            /\ r.value \in 0..(Len(globalTypes) - 1)
            /\ globalTypes[r.value + 1].paramTypes = sig.paramTypes
            /\ globalTypes[r.value + 1].returnTypes = sig.returnTypes
            /\ \A j \in 1..Len(globalTypes) :
                  (/\ globalTypes[j].paramTypes = sig.paramTypes
                   /\ globalTypes[j].returnTypes = sig.returnTypes) => j = r.value + 1
    /\ Len(functions) >= 1 =>
          resolveGlobalTypeIndex(globalTypes, getSignature(functions[1])).value = 0

\* Functions of different names share a signature that is not the first one
\* interned, and it resolves to index 1.
C2_Witness ==
    /\ Len(globalTypes) >= 2
    /\ \E i, j \in 1..Len(functions) :
          /\ i # j
          /\ functions[i].functionName # functions[j].functionName
          /\ getSignature(functions[i]) = getSignature(functions[j])
          /\ resolveGlobalTypeIndex(globalTypes, getSignature(functions[i])).value = 1

(* C10: every function with an inline export name n at index i of functions
   has an export entry (n, Func, i) with no symbolic name, and adding a
   function without an inline export adds no export entry. *)
InlineExportsPresent ==
    \A i \in 1..Len(functions) :
        functions[i].hasInlineExport =>
            \E k \in 1..Len(exportExpressions) :
                /\ exportExpressions[k].exportName = functions[i].inlineExportName
                /\ exportExpressions[k].exportType = "Func"
                /\ exportExpressions[k].exportReferenceIndex = Num(i - 1)
                /\ exportExpressions[k].exportReferenceName = Null

C10_InlineExportSynthesized ==
    [][/\ InlineExportsPresent'
       /\ (/\ Len(functions') = Len(functions) + 1
           /\ ~functions'[Len(functions')].hasInlineExport)
          => exportExpressions' = exportExpressions]_vars

\* An inline-exporting function sits at index 1, after a function without
\* inline export and an explicit export.
C10_Witness ==
    /\ Len(functions) = 2
    /\ ~functions[1].hasInlineExport
    /\ functions[2].hasInlineExport
    /\ Len(exportExpressions) = 2
    /\ exportExpressions[2].exportReferenceIndex = Num(1)

-----------------------------------------------------------------------------
(* Reference definitions the claims about expressions are stated with *)

\* The items a function body hands to the type checker
BodyItems(body) ==
    IF body.kind = "UnfoldedTokenExpression" THEN body.tokens
    ELSE IF body.kind = "EmptyTokenExpression" THEN <<>>
    ELSE <<body>>

EndToken == [kind |-> "Token", type |-> "End", lexeme |-> "end"]

RECURSIVE PostOrder(_), PostOrderAll(_), Occurs(_, _), OccursInAll(_, _)
RECURSIVE Blocks(_), BlocksOfAll(_), NumBlocks(_), NumBlocksOfAll(_)

\* The post-order token sequence of an expression: operands left to right,
\* then the operator; a block contributes its header, its body and an end.
PostOrder(e) ==
    CASE e.kind = "Token" -> <<e>>
      [] e.kind = "OperationTree" -> PostOrderAll(e.operands) \o <<e.operator>>
      [] e.kind = "UnfoldedTokenExpression" -> PostOrderAll(e.tokens)
      [] e.kind = "BlockExpression" ->
            <<e.headerToken>> \o PostOrder(e.blockExpression) \o <<EndToken>>
      [] OTHER -> <<>>

PostOrderAll(items) ==
    IF items = <<>> THEN <<>>
    ELSE PostOrder(Head(items)) \o PostOrderAll(Tail(items))

\* How many times token t stands in expression e
Occurs(t, e) ==
    CASE e.kind = "Token" -> IF e = t THEN 1 ELSE 0
      [] e.kind = "OperationTree" ->
            OccursInAll(t, e.operands) + (IF e.operator = t THEN 1 ELSE 0)
      [] e.kind = "UnfoldedTokenExpression" -> OccursInAll(t, e.tokens)
      [] e.kind = "BlockExpression" ->
            Occurs(t, e.blockExpression) + (IF e.headerToken = t THEN 1 ELSE 0)
      [] OTHER -> 0

OccursInAll(t, items) ==
    IF items = <<>> THEN 0
    ELSE Occurs(t, Head(items)) + OccursInAll(t, Tail(items))

\* How many times t stands in a sequence
CountIn(t, seq) == Cardinality({i \in 1..Len(seq) : seq[i] = t})

\* The block expressions nested in an expression
Blocks(e) ==
    CASE e.kind = "OperationTree" -> BlocksOfAll(e.operands)
      [] e.kind = "UnfoldedTokenExpression" -> BlocksOfAll(e.tokens)
      [] e.kind = "BlockExpression" -> {e} \cup Blocks(e.blockExpression)
      [] OTHER -> {}

BlocksOfAll(items) ==
    IF items = <<>> THEN {}
    ELSE Blocks(Head(items)) \cup BlocksOfAll(Tail(items))

\* How many block expressions are nested in an expression
NumBlocks(e) ==
    CASE e.kind = "OperationTree" -> NumBlocksOfAll(e.operands)
      [] e.kind = "UnfoldedTokenExpression" -> NumBlocksOfAll(e.tokens)
      [] e.kind = "BlockExpression" -> 1 + NumBlocks(e.blockExpression)
      [] OTHER -> 0

NumBlocksOfAll(items) ==
    IF items = <<>> THEN 0
    ELSE NumBlocks(Head(items)) + NumBlocksOfAll(Tail(items))

AllTokens(seq) == \A i \in 1..Len(seq) : seq[i].kind = "Token"

FunctionBodyTokens ==
    <<OpcodeToken("local.get"), VarToken("$a"),
      OpcodeToken("local.get"), VarToken("$b"), OpcodeToken("f64.add")>>

-----------------------------------------------------------------------------
(* C3: a FunctionExpression is accepted only if its body, type-checked from
   a stack seeded with the function's parameter types, ends with a stack
   equal to the declared return types. *)
C3_BodyMatchesDeclaredReturns ==
    (result.op = "newFunction" /\ ~IsError(result.value)) =>
        stackLoop(getSignature(result.value).paramTypes,
                  BodyItems(result.value.functionBody))
            = Ok(getSignature(result.value).returnTypes)

(* C4: in a stack-form sequence, when the prefix before an item resolves and
   the item's next consumed type differs from the type on top of the stack
   (or the stack is empty), getReturnTypes / getConsumedTypes raise
   'Type mismatch' and no result types are stored; `i32.const 0 i64.eq`
   is rejected. *)
C4_MismatchRaises ==
    (/\ expr.kind = "UnfoldedTokenExpression"
     /\ result.op \in {"getReturnTypes", "getConsumedTypes"}) =>
        /\ \A k \in 1..Len(expr.tokens) :
            LET before == stackLoop(<<>>, SubSeq(expr.tokens, 1, k - 1))
                consumed == getConsumedTypes(expr.tokens[k])
            IN  (~IsError(before) /\ ~IsError(consumed)) =>
                  \A j \in 1..Len(consumed.value) :
                    LET popped == popConsumed(before.value,
                                              SubSeq(consumed.value, 1, j - 1))
                    IN  (/\ ~IsError(popped)
                         /\ \/ popped.value = <<>>
                            \/ popped.value[Len(popped.value)] # consumed.value[j])
                        => /\ IsError(result.value)
                           /\ result.value.message = "Type mismatch"
                           /\ ~cache.returnTypes.defined
                           /\ ~cache.consumedTypes.defined
        /\ expr.tokens = <<OpcodeToken("i32.const"), NatToken("0"), OpcodeToken("i64.eq")>>
              => IsError(result.value)

\* getReturnTypes has been called on `i32.const 0 i64.eq` and has raised
C4_Witness ==
    /\ expr = UnfoldedTokenExpression(
                 <<OpcodeToken("i32.const"), NatToken("0"), OpcodeToken("i64.eq")>>)
    /\ result.op = "getReturnTypes"
    /\ IsError(result.value)
    /\ cache = FreshCache

(* C5: when the stack before the last token of a stack-form sequence has the
   token's declared consumed types c1..cn as its top n entries, bottom to
   top, the token is accepted: the result is the stack without these n
   entries followed by the token's produced types. *)
C5_PopsInReverseDeclaredOrder ==
    (/\ expr.kind = "UnfoldedTokenExpression"
     /\ expr.tokens # <<>>
     /\ result.op = "getReturnTypes") =>
        LET n == Len(expr.tokens)
            tok == expr.tokens[n]
            before == stackLoop(<<>>, SubSeq(expr.tokens, 1, n - 1))
            consumed == Token_getConsumedTypes(tok)
            m == Len(before.value) - Len(consumed)
        IN  (/\ tok.kind = "Token"
             /\ ~IsError(before)
             /\ consumed # <<>>
             /\ m >= 0
             /\ SubSeq(before.value, m + 1, Len(before.value)) = consumed)
            => result.value = Ok(SubSeq(before.value, 1, m) \o Token_getReturnTypes(tok))

(* C6: unfold of an OperationTree returns the post-order token sequence of
   the tree: the unfolded operands left to right, then the operator, at every
   depth; only Tokens, every token of the tree exactly once, the operator
   last.  It raises only when the signature of a nested block cannot be
   resolved.  (f64.add (local.get $a) (local.get $b)) unfolds to
   local.get $a local.get $b f64.add. *)
C6_UnfoldIsPostOrder ==
    (expr.kind = "OperationTree" /\ result.op = "unfold") =>
        /\ IsError(result.value) =>
              \E b \in Blocks(expr) : IsError(BlockExpression_resolveTypes(b))
        /\ ~IsError(result.value) =>
              /\ result.value.kind = "PureUnfoldedTokenExpression"
              /\ AllTokens(result.value.tokens)
              /\ result.value.tokens = PostOrder(expr)
              /\ result.value.tokens[Len(result.value.tokens)] = expr.operator
              /\ \A t \in BodyTokens \cup {BlockToken, LoopToken, IfToken} :
                    CountIn(t, result.value.tokens) = Occurs(t, expr)
              /\ CountIn(EndToken, result.value.tokens) = NumBlocks(expr)
        /\ expr = FunctionFoldedBody =>
              /\ ~IsError(result.value)
              /\ result.value.tokens = FunctionBodyTokens

\* A tree with a nested tree as operand has been unfolded to three tokens
C6_Witness ==
    /\ expr.kind = "OperationTree"
    /\ \E i \in 1..Len(expr.operands) : expr.operands[i].kind = "OperationTree"
    /\ result.op = "unfold"
    /\ ~IsError(result.value)
    /\ Len(result.value.tokens) = MaxTokens

(* C7: for every OperationTree t without blocks, unfold(t) returns the same
   tokens as unfold of the UnfoldedTokenExpression that holds t's stack-form
   instruction stream (operands' instructions left to right, then the
   operator); the folded test body unfolds like the unfolded test body. *)
C7_FoldedAndStackFormAgree ==
    (expr.kind = "OperationTree" /\ Blocks(expr) = {} /\ result.op = "unfold") =>
        /\ result.value = unfold(UnfoldedTokenExpression(PostOrder(expr)))
        /\ expr = FunctionFoldedBody => result.value = unfold(FunctionUnfoldedBody)

\* The folded test body has been unfolded
C7_Witness ==
    /\ expr = FunctionFoldedBody
    /\ result.op = "unfold"
    /\ result.value = unfold(FunctionUnfoldedBody)
    /\ ~IsError(result.value)

(* C8, as stated: unfold applied to what unfold(e) returned is defined and
   yields the same token sequence. *)
C8_UnfoldIdempotent ==
    result.op = "unfoldOfResult" =>
        /\ ~IsError(result.value)
        /\ result.value.tokens = result.first.tokens

(* C8, amended: what unfold(e) returns is a PureUnfoldedTokenExpression or a
   PureUnfoldedBlockExpression of Tokens, on which unfold is not defined;
   unfold of an UnfoldedTokenExpression holding the returned tokens returns
   exactly these tokens. *)
C8_UnfoldOfUnfoldedTokens ==
    /\ (result.op = "unfold" /\ ~IsError(result.value)) =>
          /\ result.value.kind \in {"PureUnfoldedTokenExpression",
                                    "PureUnfoldedBlockExpression"}
          /\ AllTokens(result.value.tokens)
    /\ result.op = "unfoldOfResult" =>
          result.value = Raise("unfold is not a function")
    /\ result.op = "unfoldOfRewrapped" =>
          result.value = PureUnfoldedTokenExpression(result.first.tokens)

\* The tokens unfolded from a tree and from a block have been unfolded again
C8_Witness ==
    /\ result.op = "unfoldOfRewrapped"
    /\ expr.kind \in {"OperationTree", "BlockExpression"}
    /\ Len(result.first.tokens) = MaxTokens
    /\ result.value.tokens = result.first.tokens

(* C9: unfold of an UnfoldedTokenExpression whose items are all Tokens, and
   of the empty body, returns exactly the same tokens in the same order. *)
C9_UnfoldIdentityOnStackForm ==
    result.op = "unfold" =>
        /\ (expr.kind = "UnfoldedTokenExpression" /\ AllTokens(expr.tokens)) =>
              result.value = PureUnfoldedTokenExpression(expr.tokens)
        /\ expr.kind = "EmptyTokenExpression" =>
              result.value = PureUnfoldedTokenExpression(<<>>)

\* The comparisonOperators test body has been unfolded
C9_Witness ==
    /\ expr = ComparisonOperators
    /\ result.op = "unfold"
    /\ result.value.tokens = expr.tokens
    /\ Len(result.value.tokens) = 5

-----------------------------------------------------------------------------
(* C11: resolveGlobalExpressionIndex of the name of a function of the module
   returns an index of the function index space at which a function of that
   name sits, and the function's own index when no earlier function has the
   name; after (func $a) (func $b), $b resolves to 1. *)
C11_FunctionNameResolves ==
    /\ \A k \in 1..Len(functions) :
          functions[k].functionName # Null =>
            LET r == resolveGlobalExpressionIndex(globals, functions[k].functionName)
            IN  /\ ~IsError(r)
                /\ r.value \in 0..(Len(functions) - 1)
                /\ functions[r.value + 1].functionName = functions[k].functionName
                /\ (\A j \in 1..(k - 1) :
                        functions[j].functionName # functions[k].functionName)
                      => r.value = k - 1
    /\ (/\ Len(functions) >= 2
        /\ functions[1].functionName = "$a"
        /\ functions[2].functionName = "$b")
          => resolveGlobalExpressionIndex(globals, "$b") = Ok(1)

\* (func $a) (func $b) (export "x" (func $b)): the reference $b resolves to 1
C11_Witness ==
    /\ Len(functions) = 2
    /\ functions[1].functionName = "$a"
    /\ functions[2].functionName = "$b"
    /\ \E k \in 1..Len(exportExpressions) :
          /\ exportExpressions[k].exportReferenceName = "$b"
          /\ resolveGlobalExpressionIndex(globals,
                 exportExpressions[k].exportReferenceName) = Ok(1)

(* C12: resolveVariableIndex(name) returns the smallest index of
   paramNames ++ localNames whose slot name is name: a parameter name
   resolves to i < |params| with paramNames[i] = name, a name found only
   among the locals at local position j resolves to |params| + j, and a
   null slot is never matched. *)
C12_SmallestMatchingSlot ==
    (result.op = "resolveVariableIndex" /\ functions # <<>>) =>
        LET f == functions[1]
            names == f.paramNames \o f.localNames
            np == Len(f.paramNames)
            v == result.value.value
        IN  (\E i \in 1..Len(names) : names[i] = result.name) =>
              /\ ~IsError(result.value)
              /\ v \in 0..(Len(names) - 1)
              /\ names[v + 1] = result.name
              /\ names[v + 1] # Null
              /\ \A i \in 1..v : names[i] # result.name
              /\ (\E i \in 1..np : f.paramNames[i] = result.name)
                    => (v < np /\ f.paramNames[v + 1] = result.name)
              /\ (\A i \in 1..np : f.paramNames[i] # result.name)
                    => /\ v >= np
                       /\ f.localNames[v - np + 1] = result.name
                       /\ \A j \in 1..(v - np) : f.localNames[j] # result.name

\* A name that is both the second local and no parameter, behind an unnamed
\* parameter, has been resolved to |params| + 1
C12_Witness ==
    /\ result.op = "resolveVariableIndex"
    /\ functions # <<>>
    /\ functions[1].paramNames = <<Null, "$x">>
    /\ functions[1].localNames = <<"$x", "$y">>
    /\ result.name = "$y"
    /\ result.value = Ok(3)

(* C13: resolveVariableIndex of a name that is in neither paramNames nor
   localNames, and resolveGlobalExpressionIndex of a name no function of the
   module carries, raise an error and return no index. *)
C13_UnknownNameRaises ==
    /\ (result.op = "resolveVariableIndex" /\ functions # <<>>) =>
          LET names == functions[1].paramNames \o functions[1].localNames
          IN  (\A i \in 1..Len(names) : names[i] # result.name) =>
                /\ result.value.kind # "Ok"
                /\ result.value = Raise("Parameter name not found in function")
    /\ result.op = "resolveGlobalExpressionIndex" =>
          ((\A k \in 1..Len(functions) : functions[k].functionName # result.name) =>
                /\ result.value.kind # "Ok"
                /\ result.value = Raise("Global not found!"))

\* $z has been looked up in a function whose slots are $x, an unnamed
\* parameter and $y
C13_Witness ==
    /\ result.op = "resolveVariableIndex"
    /\ functions # <<>>
    /\ functions[1].paramNames = <<"$x", Null>>
    /\ functions[1].localNames = <<"$y">>
    /\ result.name = "$z"
    /\ IsError(result.value)

(* C14: getSignature of a BlockExpression returns exactly the parameter and
   result types passed to its constructor (the empty signature when there was
   no typeuse), whatever the body contains. *)
C14_SignatureIsDeclared ==
    result.op = "getSignature" => result.value = Ok(result.signature)

(* C15: a BlockExpression type-checks only if its body, checked from a stack
   seeded with the block's declared parameter types, ends with a stack equal
   to the declared result types; a block that declares parameters and whose
   body consumes them that way is accepted. *)
C15_BlockBodyMatchesSignature ==
    result.op = "getSignature" =>
        LET seeded == stackLoop(result.signature.paramTypes,
                                BodyItems(result.block.blockExpression))
        IN  /\ ~IsError(result.value) => seeded = Ok(result.signature.returnTypes)
            /\ (/\ result.signature.paramTypes # <<>>
                /\ seeded = Ok(result.signature.returnTypes)) => ~IsError(result.value)

(* C16: unfold of a BlockExpression returns its header token, then the
   unfolded tokens of its body, then one end token, so header and end are
   the first and the last token and there is one end per block; it raises
   only when the block's signature cannot be resolved.  (block $my_block nop)
   unfolds to block nop end, a block with an empty body to header end. *)
C16_BlockUnfoldsToHeaderBodyEnd ==
    (expr.kind = "BlockExpression" /\ result.op = "unfold") =>
        /\ IsError(result.value) => IsError(BlockExpression_resolveTypes(expr))
        /\ ~IsError(result.value) =>
              LET tokens == result.value.tokens
              IN  /\ result.value.kind = "PureUnfoldedBlockExpression"
                  /\ AllTokens(tokens)
                  /\ tokens = <<expr.headerToken>> \o PostOrder(expr.blockExpression)
                                                   \o <<EndToken>>
                  /\ Len(tokens) >= 2
                  /\ tokens[1] = expr.headerToken
                  /\ tokens[Len(tokens)] = EndToken
                  /\ CountIn(EndToken, tokens) = 1 + NumBlocks(expr.blockExpression)
        /\ expr = BlockStatement =>
              result.value.tokens = <<BlockToken, OpcodeToken("nop"), EndToken>>
        /\ expr.blockExpression = EmptyTokenExpression =>
              result.value.tokens = <<expr.headerToken, EndToken>>

\* The block of the test case block_statment has been unfolded
C16_Witness ==
    /\ expr = BlockStatement
    /\ result.op = "unfold"
    /\ ~IsError(result.value)
    /\ Len(result.value.tokens) = 3

RECURSIVE checkArgs(_, _)

\* The arguments of a tree checked left to right from a stack: the consumed
\* types c1..cn of an argument are the top n entries of the stack, bottom to
\* top, and are replaced by the types the argument produces.
checkArgs(stack, args) ==
    IF args = <<>> THEN Ok(stack)
    ELSE LET step(consumed, added) ==
                 IF IsError(consumed) THEN consumed
                 ELSE IF IsError(added) THEN added
                 ELSE IF /\ Len(consumed.value) <= Len(stack)
                         /\ SubSeq(stack, Len(stack) - Len(consumed.value) + 1,
                                   Len(stack)) = consumed.value
                 THEN checkArgs(SubSeq(stack, 1, Len(stack) - Len(consumed.value))
                                    \o added.value, Tail(args))
                 ELSE Raise("Type mismatch")
         IN  step(getConsumedTypes(Head(args)), getReturnTypes(Head(args)))

(* C17: an OperationTree type-checks exactly when its operands, checked left
   to right from an empty stack, succeed and leave a stack equal, bottom to
   top, to the operator's consumed types; every other final stack raises. *)
C17_TreeChecksOperandsAgainstOperator ==
    (expr.kind = "OperationTree" /\ result.op \in {"getReturnTypes", "getConsumedTypes"}) =>
        (~IsError(result.value)
            <=> checkArgs(<<>>, expr.operands) = Ok(Token_getConsumedTypes(expr.operator)))

\* The position in fs of the first function whose signature is sig
FirstWithSignature(fs, sig) ==
    CHOOSE k \in 1..Len(fs) :
        /\ getSignature(fs[k]) = sig
        /\ \A l \in 1..(k - 1) : getSignature(fs[l]) # sig

\* types lists the distinct signatures of fs in order of first occurrence
InFirstOccurrenceOrder(types, fs) ==
    /\ {types[i] : i \in 1..Len(types)} = {getSignature(fs[k]) : k \in 1..Len(fs)}
    /\ \A i, j \in 1..Len(types) :
          i < j => /\ types[i] # types[j]
                   /\ FirstWithSignature(fs, types[i]) < FirstWithSignature(fs, types[j])

(* C18: under every addFunctionExpression / addExportExpression a signature
   at index i of globalTypes stays at index i; a signature not yet present is
   appended at the end, a present one changes nothing, and so does an export;
   globalTypes lists the distinct signatures of the functions in order of
   first occurrence. *)
C18_FirstInsertionWins ==
    [][/\ \A i \in 1..Len(globalTypes) :
            i <= Len(globalTypes') /\ globalTypes'[i] = globalTypes[i]
       /\ IF Len(functions') = Len(functions) + 1
          THEN LET sig == getSignature(functions'[Len(functions')])
               IN  IF \E i \in 1..Len(globalTypes) : globalTypes[i] = sig
                   THEN globalTypes' = globalTypes
                   ELSE /\ Len(globalTypes') = Len(globalTypes) + 1
                        /\ globalTypes'[Len(globalTypes')] = sig
          ELSE globalTypes' = globalTypes
       /\ InFirstOccurrenceOrder(globalTypes', functions')]_vars

\* Functions of signatures A, B, A have been added and globalTypes is A, B
C18_Witness ==
    /\ Len(functions) = 3
    /\ getSignature(functions[1]) # getSignature(functions[2])
    /\ getSignature(functions[3]) = getSignature(functions[1])
    /\ globalTypes = <<getSignature(functions[1]), getSignature(functions[2])>>

\* The position in fs of the first function named name
FirstNamed(fs, name) ==
    CHOOSE k \in 1..Len(fs) :
        /\ fs[k].functionName = name
        /\ \A l \in 1..(k - 1) : fs[l].functionName # name

(* C19: an export that names a function symbolically is stored with its
   name; after every step of the constructor's loop, the name of every such
   export that some function carries resolves to the index of the first
   function carrying it.  The step that adds the function after the export
   (a forward reference) turns the unresolved name into the index of the
   function just added, and no later step changes a resolved name. *)
C19_ForwardReferencesResolve ==
    [][\A k \in 1..Len(exportExpressions') :
          LET name == exportExpressions'[k].exportReferenceName
              before == resolveGlobalExpressionIndex(globals, name)
              after == resolveGlobalExpressionIndex(globals', name)
          IN  name # Null =>
                /\ exportExpressions'[k].exportReferenceIndex = NullNum
                /\ (\E j \in 1..Len(functions') : functions'[j].functionName = name)
                      => after = Ok(FirstNamed(functions', name) - 1)
                /\ (/\ k <= Len(exportExpressions)
                    /\ IsError(before)
                    /\ Len(functions') = Len(functions) + 1
                    /\ functions'[Len(functions')].functionName = name)
                      => after = Ok(Len(functions') - 1)
                /\ ~IsError(before) => after = before]_vars

\* (export "x" (func $b)) (func $b (export "fn")): the explicit export stands
\* before the inline export of the function it names, and $b resolves to 0
C19_Witness ==
    /\ Len(functions) = 1
    /\ functions[1].functionName = "$b"
    /\ functions[1].hasInlineExport
    /\ Len(exportExpressions) = 2
    /\ exportExpressions[1].exportReferenceName = "$b"
    /\ exportExpressions[2].exportReferenceName = Null
    /\ exportExpressions[2].exportName = functions[1].inlineExportName
    /\ resolveGlobalExpressionIndex(globals, exportExpressions[1].exportReferenceName) = Ok(0)

(* C20: every function that exists has as many parameter-name slots as
   parameter types and as many local-name slots as local types; a
   construction with lists of different lengths raises, and no function
   comes to exist by it. *)
C20_NameSlotsMatchTypes ==
    /\ \A k \in 1..Len(functions) :
          /\ Len(functions[k].paramNames) = Len(getSignature(functions[k]).paramTypes)
          /\ Len(functions[k].localNames) = Len(functions[k].localTypes)
    /\ result.op = "newFunction" =>
          IF \/ Len(result.paramTypes) # Len(result.paramNames)
             \/ Len(result.localTypes) # Len(result.localNames)
          THEN /\ IsError(result.value)
               /\ functions = <<>>
          ELSE /\ ~IsError(result.value)
               /\ result.value.paramNames = result.paramNames
               /\ result.value.localNames = result.localNames
               /\ result.value.localTypes = result.localTypes
               /\ getSignature(result.value).paramTypes = result.paramTypes

\* A construction with one local type and two local names has raised
C20_Witness ==
    /\ result.op = "newFunction"
    /\ Len(result.paramTypes) = Len(result.paramNames)
    /\ Len(result.localTypes) = 1
    /\ Len(result.localNames) = 2
    /\ IsError(result.value)
    /\ functions = <<>>

(* C21: for every OperationTree t, t type-checks if and only if the
   stack-form sequence made of the tokens of unfold(t) type-checks, and when
   both do they yield the same result types; also for operators whose
   consumed types are not all equal. *)
C21_FoldedAndStackFormSameVerdict ==
    (expr.kind = "OperationTree" /\ result.op = "getReturnTypes") =>
        LET verdict(unfolded) ==
                IF IsError(unfolded) THEN unfolded
                ELSE getReturnTypes(UnfoldedTokenExpression(unfolded.tokens))
            stackForm == verdict(unfold(expr))
        IN  /\ IsError(result.value) <=> IsError(stackForm)
            /\ ~IsError(result.value) => result.value = stackForm

(* C22, as stated: a type-checked OperationTree reports the operator's
   consumed types as its own consumed types and the operator's produced
   types as its return types. *)
C22_TreeReportsOperatorTypes ==
    (/\ expr.kind = "OperationTree"
     /\ result.op \in {"getConsumedTypes", "getReturnTypes"}
     /\ ~IsError(result.value)) =>
        /\ result.op = "getConsumedTypes" =>
              result.value = Ok(Token_getConsumedTypes(expr.operator))
        /\ result.op = "getReturnTypes" =>
              result.value = Ok(Token_getReturnTypes(expr.operator))

(* C22, amended: a type-checked OperationTree reports the operator's
   produced types as its return types and no consumed types, its operands
   having supplied what the operator consumes; in a sequence it leaves the
   outer stack as it was and pushes the operator's produced types. *)
C22_TreeConsumesNothingOutside ==
    (/\ expr.kind = "OperationTree"
     /\ result.op \in {"getConsumedTypes", "getReturnTypes"}
     /\ ~IsError(result.value)) =>
        /\ result.op = "getConsumedTypes" => result.value = Ok(<<>>)
        /\ result.op = "getReturnTypes" =>
              result.value = Ok(Token_getReturnTypes(expr.operator))
        /\ cache.consumedTypes = Defined(<<>>)
        /\ cache.returnTypes = Defined(Token_getReturnTypes(expr.operator))
        /\ \A outer \in {<<>>, <<"i64">>, <<"i32", "i64">>} :
              stackLoop(outer, <<expr>>)
                  = Ok(outer \o Token_getReturnTypes(expr.operator))

\* getConsumedTypes of (i64.store (i32.const) (i64.const)) has returned []
C22_Witness ==
    /\ expr = OperationTree(OpcodeToken("i64.store"),
                  <<OpcodeToken("i32.const"), OpcodeToken("i64.const")>>)
    /\ result.op = "getConsumedTypes"
    /\ result.value = Ok(<<>>)

\* The expressions held by object o of the heap
Children_P1(o) ==
    LET items == IF o.kind = "BlockExpression" THEN <<Ref(o.body)>>
                 ELSE IF o.kind = "OperationTree" THEN o.operands
                 ELSE IF o.kind = "EmptyTokenExpression" THEN <<>>
                 ELSE o.expr
    IN  {items[k].id : k \in {j \in 1..Len(items) : items[j].kind = "Ref"}}

(* C23: a call e.unfold() leaves every object that existed before the call
   as it was, parent references included, so the parent of every child of e
   is still e; and a second e.unfold() returns an object equal to the one
   the first call returned. *)
C23_UnfoldHasNoEffect ==
    [][result'.op = "unfold" =>
          /\ \A i \in 1..Len(heap) : heap'[i] = heap[i]
          /\ \A c \in Children_P1(heap[result'.target]) :
                heap'[c].parent = Defined(result'.target)
          /\ (/\ result.op = "unfold"
              /\ result.target = result'.target
              /\ ~IsError(result.value)
              /\ ~IsError(result'.value))
                => heap'[result'.value.value] = heap[result.value.value]]_vars

(* C24: unfold returns a result and never raises, for every expression of
   every variant, at any nesting depth, whether or not its parent has been
   set. *)
C24_UnfoldIsTotal ==
    result.op = "unfold" => ~IsError(result.value)

(* C25: the unfolded form of every BlockExpression whose header is `if`
   contains an else token between the header and the end token. *)
C25_IfCarriesElse ==
    (/\ expr.kind = "BlockExpression"
     /\ expr.headerToken.type = "If"
     /\ result.op = "unfold"
     /\ ~IsError(result.value)) =>
        \E k \in 2..(Len(result.value.tokens) - 1) :
            /\ result.value.tokens[k].type = "Else"
            /\ result.value.tokens[1] = expr.headerToken
            /\ result.value.tokens[Len(result.value.tokens)] = EndToken

\* resolveTypes of e, called while none of e's private fields is set
ResolveTypes(e) ==
    CASE e.kind = "OperationTree" -> OperationTree_resolveTypes(e)
      [] e.kind = "UnfoldedTokenExpression" -> UnfoldedTokenExpression_resolveTypes(e)
      [] e.kind = "BlockExpression" -> BlockExpression_resolveTypes(e)

(* C26: when a call that runs resolveTypes of an OperationTree,
   UnfoldedTokenExpression or BlockExpression has raised, it was resolveTypes
   that raised, the expression's cached return types, consumed types and
   block signature are still unset, and every later call of getReturnTypes,
   getConsumedTypes or getSignature raises again. *)
C26_NoPartialResultOnError ==
    (/\ expr.kind \in {"OperationTree", "UnfoldedTokenExpression", "BlockExpression"}
     /\ \/ result.op \in {"getReturnTypes", "getConsumedTypes"}
        \/ (expr.kind = "BlockExpression" /\ result.op = "unfold")
     /\ IsError(result.value)) =>
        /\ result.value = ResolveTypes(expr)
        /\ cache = FreshCache
        /\ IsError(InvokeGetReturnTypes(expr, cache).value)
        /\ IsError(InvokeGetConsumedTypes(expr, cache).value)
        /\ expr.kind = "BlockExpression" =>
              IsError(BlockExpression_getSignature(expr, cache).value)

\* getConsumedTypes of a tree with operands has raised
C26_Witness ==
    /\ expr.kind = "OperationTree"
    /\ expr.operands # <<>>
    /\ result.op = "getConsumedTypes"
    /\ IsError(result.value)
    /\ cache = FreshCache

-----------------------------------------------------------------------------
(* Specification of the export constructor: the parser hands it any token *)

AnyReferenceTokens ==
    ExportReferenceTokens \cup {NatToken("7"), TextToken("\"x\""), FuncToken, OpcodeToken("i32.const")}

ExportNameTokens == {TextToken("\"x\""), TextToken("\"fn\"")}

\* new ExportExpression(exportName: Token, exportType: Token, exportReference: Token),
\* the export joining the module when the constructor returns
ConstructExport ==
    /\ Len(functions) + Len(exportExpressions) < MaxChildren
    /\ \E exportName \in ExportNameTokens, exportReference \in AnyReferenceTokens :
        LET e == NewExportExpression(exportName, FuncToken, exportReference)
        IN  /\ result' = [op |-> "newExport", exportReference |-> exportReference, value |-> e]
            /\ IF IsError(e)
               THEN UNCHANGED moduleVars
               ELSE SetModule(addExportExpression(Module, e))
    /\ UNCHANGED <<expr, cache, heap>>

NextExport == AddFunctionExpression \/ ConstructExport

SpecExport == Init /\ [][NextExport]_vars

\* C27: every export of the module holds exactly one reference, an index with
\* a null name or a name with a null index; a numeric reference token becomes
\* the index its digits spell, whatever the number of functions, a symbolic
\* one is stored by its name, and a token of any other kind is rejected.
C27_ExactlyOneReference ==
    /\ \A k \in 1..Len(exportExpressions) :
          LET e == exportExpressions[k]
          IN  \/ (~e.exportReferenceIndex.isNull /\ e.exportReferenceName = Null)
              \/ (e.exportReferenceIndex.isNull /\ e.exportReferenceName # Null)
    /\ result.op = "newExport" =>
          LET tok == result.exportReference
              e == result.value
          IN  CASE tok.type = "Nat" ->
                      /\ ~IsError(e)
                      /\ \E k \in 1..Len(exportExpressions) : exportExpressions[k] = e
                      /\ e.exportReferenceName = Null
                      /\ ~e.exportReferenceIndex.isNull
                      /\ tok.lexeme = "0" => e.exportReferenceIndex.value = 0
                      /\ tok.lexeme = "1" => e.exportReferenceIndex.value = 1
                      /\ tok.lexeme = "7" => e.exportReferenceIndex.value = 7
                [] tok.type = "Var" ->
                      /\ ~IsError(e)
                      /\ \E k \in 1..Len(exportExpressions) : exportExpressions[k] = e
                      /\ e.exportReferenceIndex.isNull
                      /\ e.exportReferenceName = tok.lexeme
                [] OTHER -> IsError(e)

C27_Witness ==
    /\ result.op = "newExport"
    /\ result.exportReference = NatToken("7")
    /\ functions = <<>>
    /\ Len(exportExpressions) = 2
    /\ exportExpressions[2].exportReferenceIndex = Num(7)
    /\ exportExpressions[1].exportReferenceName = "$b"

(* C28: globals holds the functions of the module, position by position;
   resolveGlobalExpressionIndex(name) returns the smallest index whose
   function carries the name and raises when none does; of two functions
   with one name the later is returned for no name; a function without a
   name takes an index and is returned for no name. *)
C28_GlobalsMirrorFunctions ==
    /\ Len(globals) = Len(functions)
    /\ \A k \in 1..Len(functions) : globals[k] = functions[k]
    /\ \A name \in FunctionNames \ {Null} :
          LET r == resolveGlobalExpressionIndex(globals, name)
              carriers == {k \in 1..Len(functions) : functions[k].functionName = name}
          IN  /\ carriers = {} => IsError(r)
              /\ carriers # {} =>
                    /\ ~IsError(r)
                    /\ r.value + 1 \in carriers
                    /\ \A k \in carriers : r.value + 1 <= k
    /\ \A k \in 1..Len(functions) :
          (\/ functions[k].functionName = Null
           \/ \E j \in 1..(k - 1) : functions[j].functionName = functions[k].functionName)
            => \A name \in FunctionNames \ {Null} :
                  resolveGlobalExpressionIndex(globals, name) # Ok(k - 1)

C28_Witness ==
    /\ Len(functions) = 3
    /\ functions[1].functionName = Null
    /\ functions[2].functionName = "$a"
    /\ functions[3].functionName = "$a"
    /\ functions[2] # functions[3]
    /\ resolveGlobalExpressionIndex(globals, "$a") = Ok(1)

(* C29: exportExpressions keeps the order of introduction.  Every step
   leaves the exports already there at their positions and puts what it
   introduces behind them: the step of an explicit export adds that export
   alone; the step of a function with an inline export adds the export of
   that function, by the index the function has just taken; the step of a
   function without one adds nothing.  So the list grows by one entry for
   each explicit export and each function with an inline export. *)
C29_ExportsInIntroductionOrder ==
    [][LET n == Len(exportExpressions)
           addsFunction == Len(functions') = Len(functions) + 1
           f == functions'[Len(functions')]
       IN  /\ Len(exportExpressions') >= n
           /\ \A k \in 1..n : exportExpressions'[k] = exportExpressions[k]
           /\ (addsFunction /\ f.hasInlineExport) =>
                 /\ Len(exportExpressions') = n + 1
                 /\ exportExpressions'[n + 1].exportName = f.inlineExportName
                 /\ exportExpressions'[n + 1].exportReferenceIndex = Num(Len(functions))
                 /\ exportExpressions'[n + 1].exportReferenceName = Null
           /\ (addsFunction /\ ~f.hasInlineExport) => Len(exportExpressions') = n
           /\ ~addsFunction =>
                 /\ functions' = functions
                 /\ Len(exportExpressions') = n + 1
                 /\ exportExpressions'[n + 1].exportName = "x"]_vars

C29_Witness ==
    /\ Len(functions) = 1
    /\ functions[1].hasInlineExport
    /\ Len(exportExpressions) = 2
    /\ exportExpressions[1].exportName = "x"
    /\ exportExpressions[1].exportReferenceName = "$a"
    /\ exportExpressions[2].exportName = functions[1].inlineExportName
    /\ exportExpressions[2].exportReferenceIndex = Num(0)

-----------------------------------------------------------------------------
(* Specification of a module and its queries: the constructor adds the
   children in order; once it has returned, the indices are resolved *)

ConstructorStep ==
    /\ result.op = "none"
    /\ (AddFunctionExpression \/ AddExportExpression)

CallResolveGlobalTypeIndex ==
    /\ \E paramTypes \in ParamTypeLists, returnTypes \in ReturnTypeLists :
          LET type == FunctionSignature(paramTypes, returnTypes)
          IN  result' = [op |-> "resolveGlobalTypeIndex", type |-> type,
                         value |-> resolveGlobalTypeIndex(globalTypes, type)]
    /\ UNCHANGED <<expr, cache, heap, moduleVars>>

\* A query of the module the constructor has returned; result keeps the
\* last answer only, and a query changes no list, so the answers of a second
\* query are those of the first
QueryStep ==
    /\ result.op = "none"
    /\ (CallResolveGlobalTypeIndex \/ CallResolveGlobalExpressionIndex)

NextModule == ConstructorStep \/ QueryStep

SpecModule == Init /\ [][NextModule]_vars

(* C30: a step that adds an export leaves functions, globals and
   globalTypes as they were; a step that adds a function without an inline
   export leaves exportExpressions as it was, and one whose signature is
   already among the global types leaves globalTypes as it was; a call of
   resolveGlobalTypeIndex or resolveGlobalExpressionIndex leaves all four
   lists as they were; and no step removes an entry of a list or moves it to
   another position. *)
C30_OperationsKeepTheirFrame ==
    [][LET addsFunction == Len(functions') = Len(functions) + 1
           f == functions'[Len(functions')]
           addsExport == Len(functions') = Len(functions) /\ exportExpressions' # exportExpressions
           resolves == result' # result
       IN  /\ Len(functions') >= Len(functions)
           /\ \A k \in 1..Len(functions) : functions'[k] = functions[k]
           /\ Len(globals') >= Len(globals)
           /\ \A k \in 1..Len(globals) : globals'[k] = globals[k]
           /\ Len(globalTypes') >= Len(globalTypes)
           /\ \A k \in 1..Len(globalTypes) : globalTypes'[k] = globalTypes[k]
           /\ Len(exportExpressions') >= Len(exportExpressions)
           /\ \A k \in 1..Len(exportExpressions) : exportExpressions'[k] = exportExpressions[k]
           /\ addsExport =>
                 /\ functions' = functions
                 /\ globals' = globals
                 /\ globalTypes' = globalTypes
           /\ (addsFunction /\ ~f.hasInlineExport) => exportExpressions' = exportExpressions
           /\ (addsFunction /\ \E i \in 1..Len(globalTypes) : isEqual(globalTypes[i], getSignature(f)))
                 => globalTypes' = globalTypes
           /\ resolves =>
                 /\ functions' = functions
                 /\ globals' = globals
                 /\ globalTypes' = globalTypes
                 /\ exportExpressions' = exportExpressions]_vars

C30_Witness ==
    /\ Len(functions) = 2
    /\ ~functions[1].hasInlineExport
    /\ ~functions[2].hasInlineExport
    /\ functions[1].functionName # functions[2].functionName
    /\ getSignature(functions[1]) = getSignature(functions[2])
    /\ Len(globalTypes) = 1
    /\ Len(exportExpressions) = 1
    /\ result.op = "resolveGlobalTypeIndex"
    /\ result.type = getSignature(functions[2])
    /\ result.value = Ok(0)

=============================================================================
